---- MODULE Spec2Model ----
(***************************************************************************)
(* Model of src/pas.py: class HeapSort, an instrumented heap sort.         *)
(*                                                                         *)
(* One HeapSort instance is modelled.  Its fields are the variables        *)
(* original_data, data, reverse, key, comparisons, swaps, steps and        *)
(* execution_time.  sort() is split at the points where control can leave  *)
(* it: every evaluation of `key(a) > key(b)` in _heapify may raise         *)
(* TypeError, so each comparison is a step of its own; the statements      *)
(* between two comparisons (counter increment, exchange, snapshot) cannot  *)
(* raise and form one step.  Python lists are 0-based, TLA+ sequences are  *)
(* 1-based: data[k] of the source is data[k + 1] here.                     *)
(***************************************************************************)
EXTENDS Integers, Sequences, FiniteSets, TLC

\* ---------------------------------------------------------------- bounds
MaxLen   == 4        \* longest input list
MaxElem  == 1        \* elements are 0..MaxElem
MaxSorts == 2        \* sort() calls on the instance

Elems     == 0..MaxElem
\* time.time() - start_time, abstracted to two possible measurements
Durations == {0, 1}

\* ------------------------------------------------------- values and keys
\* Value of a key projection that does not support `>` (Python None).
NoneKey == -1
\* execution_time is not assigned by __init__: the attribute does not exist.
Absent == -1

\* The key projections the instance is constructed with:
\*   "identity"  key=None, replaced by lambda x: x
\*   "half"      key=lambda x: x // 2   (distinct elements share a key)
\*   "opt"       key=lambda x: x or None (0 projects to None)
Keys == {"identity", "half", "opt"}

KeyOf(k, e) ==
    CASE k = "identity" -> e
      [] k = "half"     -> e \div 2
      [] k = "opt"      -> IF e = 0 THEN NoneKey ELSE e

\* `a > b` on projected values raises TypeError when an operand is None.
Raises(a, b) == a = NoneKey \/ b = NoneKey

CondNoReverse(a, b, rev) == a > b

\* (key(x) > key(y)) ^ self.reverse
Cond(a, b, rev) == (a > b) # rev

\* --------------------------------------------------------- list helpers
Left(idx)  == 2 * idx + 1
Right(idx) == 2 * idx + 2

\* self.data[a], self.data[b] = self.data[b], self.data[a]   (0-based a, b)
Exchange(s, a, b) ==
    [k \in 1..Len(s) |-> IF k = a + 1 THEN s[b + 1]
                         ELSE IF k = b + 1 THEN s[a + 1]
                         ELSE s[k]]

\* self.steps.append(self.data.copy())
Snapshot(log, s) == Append(log, s)

BuildStartOffByOne(len) == len \div 2 - 2

\* first index of range(n // 2 - 1, -1, -1)
BuildStart(len) == len \div 2 - 1

RecurseSame(idx, lg) == idx

\* argument of the recursive call self._heapify(n, largest)
RecurseIndex(idx, lg) == lg

SnapshotThenExchange(d, log, idx) ==
    [data |-> Exchange(d, 0, idx), steps |-> Snapshot(log, d)]

\* body of the extraction loop before the _heapify call
ExtractUpdate(d, log, idx) ==
    [data |-> Exchange(d, 0, idx), steps |-> Snapshot(log, Exchange(d, 0, idx))]

ExtractSwapsCounted(sw) == sw + 1

\* the extraction loop leaves self.swaps alone
ExtractSwaps(sw) == sw

AnalyzeDefaultTime(d, cmp, sw, t, log) ==
    [op |-> "analyze", status |-> "ok",
     value |-> <<Len(d), cmp, sw, IF t = Absent THEN 0 ELSE t, Len(log)>>]

\* analyze(): reading self.execution_time raises AttributeError when unset
AnalyzeOutcome(d, cmp, sw, t, log) ==
    IF t = Absent
    THEN [op |-> "analyze", status |-> "AttributeError", value |-> <<>>]
    ELSE [op |-> "analyze", status |-> "ok",
          value |-> <<Len(d), cmp, sw, t, Len(log)>>]

\* ------------------------------------------------------------------ state
VARIABLES
    original_data,   \* self.original_data
    data,            \* self.data
    reverse,         \* self.reverse
    key,             \* self.key
    comparisons,     \* self.comparisons
    swaps,           \* self.swaps
    steps,           \* self.steps
    execution_time,  \* self.execution_time, Absent until sort() assigns it
    pc,              \* control position inside sort()
    n, i, largest,   \* locals of the active _heapify frame (0 outside)
    loop_i,          \* loop variable of _build_heap / sort
    caller,          \* loop that called _heapify: "build" or "extract"
    depth,           \* recursive calls made by the current top-level _heapify
    entry,           \* self.data when the current/last sort() was entered
    completed,       \* sort() calls that returned
    calls,           \* sort() calls made
    exchanges,       \* root-to-tail exchanges done by the extraction loop
    ret              \* outcome of the last public call

vars == <<original_data, data, reverse, key, comparisons, swaps, steps,
          execution_time, pc, n, i, largest, loop_i, caller, depth,
          entry, completed, calls, exchanges, ret>>

fields == <<original_data, reverse, key>>

Inputs == UNION {[1..len -> Elems] : len \in 0..MaxLen}

\* __init__
Init ==
    /\ original_data \in Inputs
    /\ data = original_data
    /\ reverse \in BOOLEAN
    /\ key \in Keys
    /\ comparisons = 0
    /\ swaps = 0
    /\ steps = <<>>
    /\ execution_time = Absent
    /\ pc = "idle"
    /\ n = 0 /\ i = 0 /\ largest = 0
    /\ loop_i = 0
    /\ caller = "none"
    /\ depth = 0
    /\ entry = <<>>
    /\ completed = 0
    /\ calls = 0
    /\ exchanges = 0
    /\ ret = [op |-> "init", status |-> "ok", value |-> <<>>]

K(idx) == KeyOf(key, data[idx + 1])

\* sort(): start_time taken, _build_heap() entered, n = len(self.data)
SortCall ==
    /\ pc = "idle"
    /\ calls < MaxSorts
    /\ calls' = calls + 1
    /\ entry' = data
    /\ loop_i' = BuildStart(Len(data))
    /\ pc' = "build"
    /\ UNCHANGED <<fields, data, comparisons, swaps, steps, execution_time,
                   n, i, largest, caller, depth, completed, exchanges, ret>>

\* _build_heap loop: next iteration calls self._heapify(n, i)
BuildCall ==
    /\ pc = "build"
    /\ loop_i >= 0
    /\ n' = Len(data) /\ i' = loop_i /\ largest' = loop_i
    /\ caller' = "build"
    /\ depth' = 0
    /\ loop_i' = loop_i - 1
    /\ pc' = "h_left"
    /\ UNCHANGED <<fields, data, comparisons, swaps, steps, execution_time,
                   entry, completed, calls, exchanges, ret>>

\* _build_heap returns
BuildReturn ==
    /\ pc = "build"
    /\ loop_i < 0
    /\ pc' = "built"
    /\ UNCHANGED <<fields, data, comparisons, swaps, steps, execution_time,
                   n, i, largest, loop_i, caller, depth, entry, completed,
                   calls, exchanges, ret>>

\* sort(): n = len(self.data); for i in range(n-1, 0, -1)
ExtractStart ==
    /\ pc = "built"
    /\ loop_i' = Len(data) - 1
    /\ pc' = "extract"
    /\ UNCHANGED <<fields, data, comparisons, swaps, steps, execution_time,
                   n, i, largest, caller, depth, entry, completed, calls,
                   exchanges, ret>>

\* extraction loop body: exchange root and tail, snapshot, self._heapify(i, 0)
ExtractCall ==
    /\ pc = "extract"
    /\ loop_i >= 1
    /\ data' = ExtractUpdate(data, steps, loop_i).data
    /\ steps' = ExtractUpdate(data, steps, loop_i).steps
    /\ swaps' = ExtractSwaps(swaps)
    /\ exchanges' = exchanges + 1
    /\ n' = loop_i /\ i' = 0 /\ largest' = 0
    /\ caller' = "extract"
    /\ depth' = 0
    /\ loop_i' = loop_i - 1
    /\ pc' = "h_left"
    /\ UNCHANGED <<fields, comparisons, execution_time, entry, completed,
                   calls, ret>>

\* sort(): loop exhausted, execution_time assigned, self.data returned
SortReturn ==
    /\ pc = "extract"
    /\ loop_i < 1
    /\ \E t \in Durations : execution_time' = t
    /\ completed' = completed + 1
    /\ ret' = [op |-> "sort", status |-> "ok", value |-> data]
    /\ pc' = "idle"
    /\ loop_i' = 0
    /\ UNCHANGED <<fields, data, comparisons, swaps, steps, n, i, largest,
                   caller, depth, entry, calls, exchanges>>

\* the exception leaves _heapify, its callers and sort()
Propagate ==
    /\ ret' = [op |-> "sort", status |-> "TypeError", value |-> <<>>]
    /\ pc' = "idle"
    /\ n' = 0 /\ i' = 0 /\ largest' = 0 /\ loop_i' = 0
    /\ caller' = "none"
    /\ depth' = 0

\* _heapify: `if left < n` is false
HeapifyNoLeft ==
    /\ pc = "h_left"
    /\ ~(Left(i) < n)
    /\ pc' = "h_right"
    /\ UNCHANGED <<fields, data, comparisons, swaps, steps, execution_time,
                   n, i, largest, loop_i, caller, depth, entry, completed,
                   calls, exchanges, ret>>

\* _heapify: comparison with the left child
HeapifyLeft ==
    /\ pc = "h_left"
    /\ Left(i) < n
    /\ ~Raises(K(Left(i)), K(largest))
    /\ comparisons' = comparisons + 1
    /\ largest' = IF Cond(K(Left(i)), K(largest), reverse)
                  THEN Left(i) ELSE largest
    /\ pc' = "h_right"
    /\ UNCHANGED <<fields, data, swaps, steps, execution_time, n, i, loop_i,
                   caller, depth, entry, completed, calls, exchanges, ret>>

\* _heapify: comparison with the left child raises TypeError
HeapifyLeftRaise ==
    /\ pc = "h_left"
    /\ Left(i) < n
    /\ Raises(K(Left(i)), K(largest))
    /\ comparisons' = comparisons + 1
    /\ Propagate
    /\ UNCHANGED <<fields, data, swaps, steps, execution_time, entry,
                   completed, calls, exchanges>>

\* _heapify: `if right < n` is false
HeapifyNoRight ==
    /\ pc = "h_right"
    /\ ~(Right(i) < n)
    /\ pc' = "h_fix"
    /\ UNCHANGED <<fields, data, comparisons, swaps, steps, execution_time,
                   n, i, largest, loop_i, caller, depth, entry, completed,
                   calls, exchanges, ret>>

\* _heapify: comparison with the right child
HeapifyRight ==
    /\ pc = "h_right"
    /\ Right(i) < n
    /\ ~Raises(K(Right(i)), K(largest))
    /\ comparisons' = comparisons + 1
    /\ largest' = IF Cond(K(Right(i)), K(largest), reverse)
                  THEN Right(i) ELSE largest
    /\ pc' = "h_fix"
    /\ UNCHANGED <<fields, data, swaps, steps, execution_time, n, i, loop_i,
                   caller, depth, entry, completed, calls, exchanges, ret>>

\* _heapify: comparison with the right child raises TypeError
HeapifyRightRaise ==
    /\ pc = "h_right"
    /\ Right(i) < n
    /\ Raises(K(Right(i)), K(largest))
    /\ comparisons' = comparisons + 1
    /\ Propagate
    /\ UNCHANGED <<fields, data, swaps, steps, execution_time, entry,
                   completed, calls, exchanges>>

\* _heapify: largest != i: count, exchange, snapshot, recurse
HeapifySwap ==
    /\ pc = "h_fix"
    /\ largest # i
    /\ swaps' = swaps + 1
    /\ data' = Exchange(data, i, largest)
    /\ steps' = Snapshot(steps, Exchange(data, i, largest))
    /\ i' = RecurseIndex(i, largest)
    /\ largest' = RecurseIndex(i, largest)
    /\ depth' = depth + 1
    /\ pc' = "h_left"
    /\ UNCHANGED <<fields, comparisons, execution_time, n, loop_i, caller,
                   entry, completed, calls, exchanges, ret>>

\* _heapify: largest == i: the frame (and every enclosing frame) returns
HeapifyReturn ==
    /\ pc = "h_fix"
    /\ largest = i
    /\ pc' = caller
    /\ n' = 0 /\ i' = 0 /\ largest' = 0
    /\ caller' = "none"
    /\ depth' = 0
    /\ UNCHANGED <<fields, data, comparisons, swaps, steps, execution_time,
                   loop_i, entry, completed, calls, exchanges, ret>>

\* analyze()
Analyze ==
    /\ pc = "idle"
    /\ ret' = AnalyzeOutcome(data, comparisons, swaps, execution_time, steps)
    /\ UNCHANGED <<fields, data, comparisons, swaps, steps, execution_time,
                   pc, n, i, largest, loop_i, caller, depth, entry,
                   completed, calls, exchanges>>

Next ==
    \/ SortCall
    \/ BuildCall
    \/ BuildReturn
    \/ ExtractStart
    \/ ExtractCall
    \/ SortReturn
    \/ HeapifyNoLeft
    \/ HeapifyLeft
    \/ HeapifyLeftRaise
    \/ HeapifyNoRight
    \/ HeapifyRight
    \/ HeapifyRightRaise
    \/ HeapifySwap
    \/ HeapifyReturn
    \/ Analyze

Spec == Init /\ [][Next]_vars

\* sort() is synchronous and single-threaded: a started call keeps running.
Running ==
    \/ BuildCall \/ BuildReturn \/ ExtractStart \/ ExtractCall \/ SortReturn
    \/ HeapifyNoLeft \/ HeapifyLeft \/ HeapifyLeftRaise
    \/ HeapifyNoRight \/ HeapifyRight \/ HeapifyRightRaise
    \/ HeapifySwap \/ HeapifyReturn

FairSpec == Spec /\ WF_vars(Running)

\* ------------------------------------------------------------ properties
Count(e, s) == Cardinality({k \in 1..Len(s) : s[k] = e})

\* s and t hold the same multiset of elements
IsPermutation(s, t) ==
    /\ Len(s) = Len(t)
    /\ \A e \in Elems : Count(e, s) = Count(e, t)

\* consecutive elements of s are in order under (key, reverse)
InOrder(s) ==
    \A k \in 1..(Len(s) - 1) :
        IF reverse THEN KeyOf(key, s[k]) >= KeyOf(key, s[k + 1])
                   ELSE KeyOf(key, s[k]) <= KeyOf(key, s[k + 1])

KeysOf(s) == [k \in 1..Len(s) |-> KeyOf(key, s[k])]

\* no two distinct elements of s project to the same key
KeyInjectiveOn(s) ==
    \A a, b \in 1..Len(s) :
        KeyOf(key, s[a]) = KeyOf(key, s[b]) => s[a] = s[b]

RECURSIVE CeilLog2(_)
CeilLog2(m) == IF m <= 1 THEN 0 ELSE 1 + CeilLog2((m + 1) \div 2)

\* the state right after a sort() call returned its list
SortReturned == pc = "idle" /\ ret.op = "sort" /\ ret.status = "ok"

\* the state right after a sort() call propagated a comparison failure
SortFailed == pc = "idle" /\ ret.op = "sort" /\ ret.status = "TypeError"

\* the working sequence agrees with the step log
Consistent ==
    IF steps # <<>> THEN steps[Len(steps)] = data ELSE data = original_data

\* children of 0-based index p inside data
ChildrenOf(p) == {c \in {Left(p), Right(p)} : c < Len(data)}

\* C1: a returned sort() result is a permutation of original_data and every
\* consecutive pair is in order under the key and the reverse flag.
C1_SortedPermutation ==
    SortReturned =>
        /\ ret.value = data
        /\ IsPermutation(ret.value, original_data)
        /\ InOrder(ret.value)

C1_Witness ==
    /\ SortReturned
    /\ completed = 1
    /\ reverse
    /\ key = "identity"
    /\ Len(data) >= 4
    /\ data # original_data
    /\ \E a, b \in 1..Len(data) : KeyOf(key, data[a]) # KeyOf(key, data[b])

\* C2 (as claimed): after sort() returns, the number of snapshots in the
\* step log equals the swaps counter.
C2_StepCountEqualsSwaps ==
    SortReturned => Len(steps) = swaps

\* C3: after sort() returns, a non-empty step log ends with the returned
\* sequence.
C3_LastStepIsResult ==
    (SortReturned /\ steps # <<>>) => steps[Len(steps)] = ret.value

C3_Witness ==
    /\ SortReturned
    /\ Len(steps) >= 4
    /\ swaps >= 1
    /\ data # original_data

\* a second (or later) sort() call on the instance has returned; entry is
\* then the output of the preceding sort() under the same policy
Resorted == SortReturned /\ completed >= 2

\* C4 (as claimed): re-sorting the output of sort() under the same policy
\* returns the same sequence, element for element, also when distinct
\* elements share a key.
C4_ResortSameElements ==
    Resorted => ret.value = entry

\* C4 (amended): re-sorting the output of sort() returns a sequence with the
\* same key at every index, and the identical sequence when no two distinct
\* elements share a key.
C4_ResortSameKeys ==
    Resorted =>
        /\ KeysOf(ret.value) = KeysOf(entry)
        /\ KeyInjectiveOn(entry) => ret.value = entry

C4_Witness ==
    /\ Resorted
    /\ Len(data) >= 3
    /\ KeyInjectiveOn(entry)
    /\ \E a, b \in 1..Len(data) : data[a] # data[b]
    /\ data # original_data

\* C5: analyze() raises while no sort() call has completed, and afterwards
\* returns a record holding the current size, counters and step count.
C5_AnalyzeNeedsSort ==
    (pc = "idle" /\ ret.op = "analyze") =>
        /\ completed = 0 => ret.status = "AttributeError"
        /\ completed > 0 =>
              /\ ret.status = "ok"
              /\ ret.value[1] = Len(data)
              /\ ret.value[2] = comparisons
              /\ ret.value[3] = swaps
              /\ ret.value[4] = execution_time
              /\ ret.value[5] = Len(steps)

C5_Witness ==
    /\ pc = "idle"
    /\ ret.op = "analyze"
    /\ ret.status = "AttributeError"
    /\ completed = 0
    /\ calls >= 1
    /\ steps # <<>>

\* C6: wherever a comparison can fail, and after a failure has propagated,
\* the working sequence equals the last snapshot, or original_data when the
\* log is empty.
C6_ConsistentAtFailure ==
    (pc \in {"h_left", "h_right"} \/ SortFailed) => Consistent

C6_Witness ==
    /\ SortFailed
    /\ steps # <<>>
    /\ swaps >= 1

\* C7 (as claimed): under either reverse setting a child whose key equals
\* the candidate's key does not replace it, so a node whose children all
\* have its key is not swapped, and all-equal keys sort with zero swaps.
C7_TiesNeverSwap ==
    /\ (/\ pc = "h_fix"
        /\ \A c \in {Left(i), Right(i)} : c < n => K(c) = K(i))
           => largest = i
    /\ (/\ SortReturned
        /\ \A a, b \in 1..Len(data) : KeyOf(key, data[a]) = KeyOf(key, data[b]))
           => swaps = 0

\* C8: when _build_heap returns, every parent is >= (reverse: <=) each of
\* its children under the key; lists of length <= 1 are left untouched.
C8_HeapBuilt ==
    pc = "built" =>
        /\ \A p \in 0..(Len(data) - 1) : \A c \in ChildrenOf(p) :
              IF reverse THEN K(p) <= K(c) ELSE K(p) >= K(c)
        /\ Len(data) <= 1 =>
              /\ data = entry
              /\ comparisons = 0
              /\ swaps = 0
              /\ steps = <<>>

C8_Witness ==
    /\ pc = "built"
    /\ Len(data) >= 4
    /\ reverse
    /\ data # entry
    /\ \E a, b \in 1..Len(data) : KeyOf(key, data[a]) # KeyOf(key, data[b])

\* C9: _heapify recurses only into a strictly greater index below n, makes
\* at most ceil(log2(n)) recursive calls per top-level call, and every
\* started sort() call ends.
C9_HeapifyTerminates ==
    /\ [](depth <= CeilLog2(n))
    /\ [][(pc = "h_fix" /\ pc' = "h_left") => (i' > i /\ i' < n)]_vars
    /\ (pc # "idle") ~> (pc = "idle")

C9_Witness ==
    /\ pc = "h_left"
    /\ depth = 2
    /\ reverse

\* C10: the step log holds one snapshot per counted swap plus one per
\* root-to-tail exchange; after k completed sort() calls on n >= 1 elements
\* len(steps) - swaps = k * (n - 1); swaps never exceeds comparisons.
C10_StepAccounting ==
    /\ Len(steps) = swaps + exchanges
    /\ (pc = "idle" /\ Len(data) >= 1)
          => Len(steps) - swaps = completed * (Len(data) - 1)
    /\ swaps <= comparisons

C10_Witness ==
    /\ SortReturned
    /\ completed = 2
    /\ Len(data) >= 3
    /\ swaps >= 1

====
